---- MODULE Spec2Model ----
(***************************************************************************)
(* The blog listing of tors-x.dev: parseFrontmatter and load of            *)
(* src/routes/blog/+page.server.ts (src/unnamed/part_007), the two lists   *)
(* of the blog page (part_008), the theme store and the layout's theme     *)
(* effect (part_000, part_010), and the contact form's handleSubmit.       *)
(*                                                                         *)
(* Text is modelled character by character: a string is a sequence of      *)
(* one-character strings, so that the regular expression, split, trim,     *)
(* slice and Number are computed as the code computes them.                *)
(***************************************************************************)
EXTENDS Integers, Sequences, FiniteSets

VARIABLES
    fs,         \* the content root: [root, entries] as readdir/readFile see it
    now,        \* the clock, as a day number since 1970-01-01 (UTC)
    pc,         \* position of the running load call
    blogDirs,   \* load: names of the subdirectories, in scan order
    idx,        \* load: position of the for loop in blogDirs
    blogPosts,  \* load: the records pushed so far, then the sorted list
    outcome,    \* load: "none", "returned" or "error500"
    warnings,   \* load: slugs passed to console.warn, in order
    content,    \* parseFrontmatter: the input text
    parsed,     \* parseFrontmatter: the returned {frontmatter, body}
    post,       \* the BlogPost built from parsed.frontmatter
    ppc,        \* position of the single-document pipeline
    calls,      \* number of calls started (of load, or of parseFrontmatter)
    prev,       \* what the previous load call ended with, and on which root
    memo,       \* history: the input and the result of every parseFrontmatter call
    featuredPosts,  \* blog page: blogPosts.filter(post => post.featured)
    recentPosts,    \* blog page: blogPosts.filter(post => !post.featured)
    storage,    \* localStorage.theme: "absent" (no such key), "dark" or ""
    prefersDark,    \* matchMedia('(prefers-color-scheme: dark)').matches
    isDarkMode,     \* theme.isDarkMode
    isInitialized,  \* theme.isInitialized
    rootDark,   \* the document root has the class dark
    tpc,        \* the page: "closed", "loaded" (store module run), "mounted"
    dirty,      \* isDarkMode was written and the theme effect has not rerun yet
    visits,     \* number of page loads
    toggles,    \* history: toggleDarkMode calls of this visit
    visitStart, \* history: isDarkMode as the store module initialised it
    lastTheme,  \* history: theme when the last mounted visit ended, or "none"
    status,     \* contact form: the status text
    inflight,   \* contact form: number of requests sent and not yet settled
    lastEvent,  \* history: what the last step of the form was
    submits     \* number of submissions so far

pageVars == <<featuredPosts, recentPosts>>
themeVars == <<storage, prefersDark, isDarkMode, isInitialized, rootDark, tpc,
               dirty, visits, toggles, visitStart, lastTheme>>
contactVars == <<status, inflight, lastEvent, submits>>
uiVars == <<pageVars, themeVars, contactVars>>

vars == <<fs, now, pc, blogDirs, idx, blogPosts, outcome, warnings,
          content, parsed, post, ppc, calls, prev, memo, uiVars>>

runVars == <<calls, prev>>
loadVars == <<fs, now, pc, blogDirs, idx, blogPosts, outcome, warnings, runVars,
              uiVars>>
parseVars == <<content, parsed, post, ppc, memo>>

----------------------------------------------------------------------------
(* Bounds of the model *)

MaxLines == 4        \* lines of a document in the delimiter family
MaxHeaderLines == 2  \* header lines of a document in the header family
MaxEntries == 4      \* directory entries of the content root
MaxTicks == 1        \* days the clock may advance during the run

----------------------------------------------------------------------------
(* Characters and strings *)

NL == "\n"

\* What \s matches and what String.prototype.trim removes, among the
\* characters the model uses.
WhiteSpace == {" ", "\t", "\n", "\r"}

Digits == {"0", "1", "2", "3", "4", "5", "6", "7", "8", "9"}

DigitValue(c) ==
    CASE c = "0" -> 0 [] c = "1" -> 1 [] c = "2" -> 2 [] c = "3" -> 3
      [] c = "4" -> 4 [] c = "5" -> 5 [] c = "6" -> 6 [] c = "7" -> 7
      [] c = "8" -> 8 [] c = "9" -> 9

DigitChar(n) ==
    CASE n = 0 -> "0" [] n = 1 -> "1" [] n = 2 -> "2" [] n = 3 -> "3"
      [] n = 4 -> "4" [] n = 5 -> "5" [] n = 6 -> "6" [] n = 7 -> "7"
      [] n = 8 -> "8" [] n = 9 -> "9"

SetMin(S) == CHOOSE x \in S : \A y \in S : x <= y
SetMax(S) == CHOOSE x \in S : \A y \in S : x >= y

\* s.trim()
Trim(s) ==
    LET keep == {i \in 1..Len(s) : s[i] \notin WhiteSpace}
    IN  IF keep = {} THEN <<>> ELSE SubSeq(s, SetMin(keep), SetMax(keep))

\* s.includes(c), s.startsWith(c), s.endsWith(c) for a one-character c
Includes(s, c) == \E i \in 1..Len(s) : s[i] = c
StartsWith(s, c) == Len(s) >= 1 /\ s[1] = c
EndsWith(s, c) == Len(s) >= 1 /\ s[Len(s)] = c

\* s.slice(1, -1)
Slice1(s) == SubSeq(s, 2, Len(s) - 1)

\* s.split(sep) for a one-character separator: always at least one part
RECURSIVE Split(_, _)
Split(s, sep) ==
    LET at == {i \in 1..Len(s) : s[i] = sep}
    IN  IF at = {} THEN <<s>>
        ELSE <<SubSeq(s, 1, SetMin(at) - 1)>>
                 \o Split(SubSeq(s, SetMin(at) + 1, Len(s)), sep)

\* parts.join(sep)
RECURSIVE Join(_, _)
Join(parts, sep) ==
    IF parts = <<>> THEN <<>>
    ELSE IF Len(parts) = 1 THEN parts[1]
    ELSE parts[1] \o <<sep>> \o Join(Tail(parts), sep)

IsDigits(s) == Len(s) >= 1 /\ \A i \in 1..Len(s) : s[i] \in Digits

RECURSIVE DecValue(_)
DecValue(s) ==
    IF s = <<>> THEN 0
    ELSE 10 * DecValue(SubSeq(s, 1, Len(s) - 1)) + DigitValue(s[Len(s)])

NaN == [nan |-> TRUE, val |-> 0]
Num(n) == [nan |-> FALSE, val |-> n]

\* Number(value): StringToNumber on the texts the model draws. White space
\* around the literal is ignored, the empty or all-white-space text is 0, a
\* signed or unsigned run of decimal digits is its value, anything else NaN.
\* (Fractions, exponents, 0x/0o/0b literals and Infinity need characters in
\* positions the drawn values never put them.)
Number(value) ==
    LET t == Trim(value)
    IN  IF t = <<>> THEN Num(0)
        ELSE IF IsDigits(t) THEN Num(DecValue(t))
        ELSE IF t[1] = "-" /\ IsDigits(Tail(t)) THEN Num(0 - DecValue(Tail(t)))
        ELSE IF t[1] = "+" /\ IsDigits(Tail(t)) THEN Num(DecValue(Tail(t)))
        ELSE NaN

isNaN(n) == n.nan

----------------------------------------------------------------------------
(* parseFrontmatter *)

\* Values of Record<string, string | number | boolean>, tagged with typeof.
StrV(s) == [type |-> "string", str |-> s, num |-> 0, bool |-> FALSE]
NumV(n) == [type |-> "number", str |-> <<>>, num |-> n, bool |-> FALSE]
BoolV(b) == [type |-> "boolean", str |-> <<>>, num |-> 0, bool |-> b]

EmptyMap == [k \in {} |-> StrV(<<>>)]

\* An assignment that keeps an entry the key already has.
Put_KeepFirst(fm, key, v) ==
    [k \in (DOMAIN fm) \cup {key} |-> IF k \in DOMAIN fm THEN fm[k] ELSE v]

\* frontmatter[key] = v
Put(fm, key, v) == [k \in (DOMAIN fm) \cup {key} |-> IF k = key THEN v ELSE fm[k]]

\* typeof frontmatter.key
TypeOf(fm, key) == IF key \in DOMAIN fm THEN fm[key].type ELSE "undefined"

HasDashes(s, i) ==
    i + 2 <= Len(s) /\ s[i] = "-" /\ s[i + 1] = "-" /\ s[i + 2] = "-"

\* Positions q >= from where \s*\n started at `from` can end: s[q] is the
\* line feed and everything between is white space.
WsNlEnds(s, from) ==
    {q \in from..Len(s) :
        s[q] = NL /\ \A i \in from..(q - 1) : s[i] \in WhiteSpace}

\* Positions p >= from where \n---\s*\n can start.
CloseStarts(s, from) ==
    {p \in from..Len(s) :
        s[p] = NL /\ HasDashes(s, p + 1) /\ WsNlEnds(s, p + 4) # {}}

NoMatch == [matched |-> FALSE, text |-> <<>>, body |-> <<>>]

\* The expression with its closing delimiter made optional: an opened header
\* that is never closed runs to the end of the text.
frontmatterRegex_NoClosing(s) ==
    IF ~HasDashes(s, 1) \/ WsNlEnds(s, 4) = {} THEN NoMatch
    ELSE LET opens == {q \in WsNlEnds(s, 4) : CloseStarts(s, q + 1) # {}}
         IN  IF opens = {}
             THEN [matched |-> TRUE,
                   text    |-> SubSeq(s, SetMin(WsNlEnds(s, 4)) + 1, Len(s)),
                   body    |-> <<>>]
             ELSE LET q == SetMax(opens)
                      p == SetMin(CloseStarts(s, q + 1))
                      r == SetMax(WsNlEnds(s, p + 4))
                  IN  [matched |-> TRUE,
                       text    |-> SubSeq(s, q + 1, p - 1),
                       body    |-> SubSeq(s, r + 1, Len(s))]

\* content.match(/^---\s*\n([\s\S]*?)\n---\s*\n([\s\S]*)$/) as the
\* backtracking matcher decides it: the first \s* is greedy (the longest
\* opener that still lets the rest match), group 1 is lazy (the nearest
\* closing delimiter after that opener), the second \s* is greedy.
frontmatterRegex(s) ==
    IF ~HasDashes(s, 1) THEN NoMatch
    ELSE LET opens == {q \in WsNlEnds(s, 4) : CloseStarts(s, q + 1) # {}}
         IN  IF opens = {} THEN NoMatch
             ELSE LET q == SetMax(opens)
                      p == SetMin(CloseStarts(s, q + 1))
                      r == SetMax(WsNlEnds(s, p + 4))
                  IN  [matched |-> TRUE,
                       text    |-> SubSeq(s, q + 1, p - 1),
                       body    |-> SubSeq(s, r + 1, Len(s))]

\* The quote test of lines 42-45.
\* The quote test with || between the two ends: a quote at one end is enough.
IsQuoted_EitherEnd(value) ==
    \/ StartsWith(value, "\"") \/ EndsWith(value, "\"")
    \/ StartsWith(value, "'") \/ EndsWith(value, "'")

IsQuoted(value) ==
    \/ StartsWith(value, "\"") /\ EndsWith(value, "\"")
    \/ StartsWith(value, "'") /\ EndsWith(value, "'")

\* ParseLine with const [key, value] = trimmedLine.split(':'): the text after
\* a second colon is lost.
ParseLine_SplitTwo(line, fm) ==
    LET trimmedLine == Trim(line)
    IN  IF trimmedLine # <<>> /\ Includes(trimmedLine, ":")
        THEN LET parts == Split(trimmedLine, ":")
                 key == Head(parts)
                 value0 == Trim(parts[2])
                 value == IF IsQuoted(value0) THEN Slice1(value0) ELSE value0
             IN  IF ~isNaN(Number(value)) /\ value # <<>>
                 THEN Put(fm, Trim(key), NumV(Number(value).val))
                 ELSE Put(fm, Trim(key), StrV(value))
        ELSE fm

\* ParseLine without the includes(':') test: a line without a colon becomes a
\* key with the empty string.
ParseLine_NoColonAsKey(line, fm) ==
    LET trimmedLine == Trim(line)
    IN  IF trimmedLine # <<>>
        THEN LET parts == Split(trimmedLine, ":")
                 key == Head(parts)
                 valueParts == Tail(parts)
                 value0 == Trim(Join(valueParts, ":"))
                 value == IF IsQuoted(value0) THEN Slice1(value0) ELSE value0
             IN  IF ~isNaN(Number(value)) /\ value # <<>>
                 THEN Put(fm, Trim(key), NumV(Number(value).val))
                 ELSE Put(fm, Trim(key), StrV(value))
        ELSE fm

\* ParseLine without lines 50-51: every value is stored as the string it is.
ParseLine_NoCoercion(line, fm) ==
    LET trimmedLine == Trim(line)
    IN  IF trimmedLine # <<>> /\ Includes(trimmedLine, ":")
        THEN LET parts == Split(trimmedLine, ":")
                 key == Head(parts)
                 valueParts == Tail(parts)
                 value0 == Trim(Join(valueParts, ":"))
                 value == IF IsQuoted(value0) THEN Slice1(value0) ELSE value0
             IN  Put(fm, Trim(key), StrV(value))
        ELSE fm

\* ParseLine with a branch for the words true and false, stored as booleans.
ParseLine_Booleans(line, fm) ==
    LET trimmedLine == Trim(line)
    IN  IF trimmedLine # <<>> /\ Includes(trimmedLine, ":")
        THEN LET parts == Split(trimmedLine, ":")
                 key == Head(parts)
                 valueParts == Tail(parts)
                 value0 == Trim(Join(valueParts, ":"))
                 value == IF IsQuoted(value0) THEN Slice1(value0) ELSE value0
             IN  IF value \in {<<"t", "r", "u", "e">>, <<"f", "a", "l", "s", "e">>}
                 THEN Put(fm, Trim(key), BoolV(value = <<"t", "r", "u", "e">>))
                 ELSE IF ~isNaN(Number(value)) /\ value # <<>>
                 THEN Put(fm, Trim(key), NumV(Number(value).val))
                 ELSE Put(fm, Trim(key), StrV(value))
        ELSE fm

\* ParseLine without the test value !== '' of line 50: Number('') is 0.
ParseLine_EmptyIsZero(line, fm) ==
    LET trimmedLine == Trim(line)
    IN  IF trimmedLine # <<>> /\ Includes(trimmedLine, ":")
        THEN LET parts == Split(trimmedLine, ":")
                 key == Head(parts)
                 valueParts == Tail(parts)
                 value0 == Trim(Join(valueParts, ":"))
                 value == IF IsQuoted(value0) THEN Slice1(value0) ELSE value0
             IN  IF ~isNaN(Number(value))
                 THEN Put(fm, Trim(key), NumV(Number(value).val))
                 ELSE Put(fm, Trim(key), StrV(value))
        ELSE fm

\* The body of the for loop, lines 37-55, for one line of the header.
ParseLine(line, fm) ==
    LET trimmedLine == Trim(line)
    IN  IF trimmedLine # <<>> /\ Includes(trimmedLine, ":")
        THEN LET parts == Split(trimmedLine, ":")
                 key == Head(parts)
                 valueParts == Tail(parts)
                 value0 == Trim(Join(valueParts, ":"))
                 value == IF IsQuoted(value0) THEN Slice1(value0) ELSE value0
             IN  IF ~isNaN(Number(value)) /\ value # <<>>
                 THEN Put(fm, Trim(key), NumV(Number(value).val))
                 ELSE Put(fm, Trim(key), StrV(value))
        ELSE fm

RECURSIVE ParseLines_StopAtBadLine(_, _)
\* The loop with break in place of skipping: it ends at the first line that
\* is blank or has no colon.
ParseLines_StopAtBadLine(lines, fm) ==
    IF lines = <<>> THEN fm
    ELSE IF Trim(Head(lines)) # <<>> /\ Includes(Head(lines), ":")
         THEN ParseLines_StopAtBadLine(Tail(lines), ParseLine(Head(lines), fm))
         ELSE fm

RECURSIVE ParseLines(_, _)
ParseLines(lines, fm) ==
    IF lines = <<>> THEN fm
    ELSE ParseLines(Tail(lines), ParseLine(Head(lines), fm))

parseFrontmatter(s) ==
    LET match == frontmatterRegex(s)
    IN  IF ~match.matched
        THEN [frontmatter |-> EmptyMap, body |-> s]
        ELSE [frontmatter |-> ParseLines(Split(match.text, NL), EmptyMap),
              body |-> match.body]

----------------------------------------------------------------------------
(* Dates: new Date(text).getTime() and new Date().toISOString().split('T')[0] *)

IsLeap(y) == (y % 4 = 0 /\ y % 100 # 0) \/ y % 400 = 0

DaysInMonth(y, m) ==
    IF m = 2 THEN (IF IsLeap(y) THEN 29 ELSE 28)
    ELSE IF m \in {4, 6, 9, 11} THEN 30 ELSE 31

\* Day number since 1970-01-01 of a calendar date (proleptic Gregorian).
DaysFromCivil(y, m, d) ==
    LET yy == IF m <= 2 THEN y - 1 ELSE y
        era == yy \div 400
        yoe == yy - era * 400
        mp == IF m > 2 THEN m - 3 ELSE m + 9
        doy == (153 * mp + 2) \div 5 + d - 1
        doe == yoe * 365 + yoe \div 4 - yoe \div 100 + doy
    IN  era * 146097 + doe - 719468

\* The calendar date of a day number.
CivilFromDays(z) ==
    LET zz == z + 719468
        era == zz \div 146097
        doe == zz - era * 146097
        yoe == (doe - doe \div 1460 + doe \div 36524 - doe \div 146096) \div 365
        doy == doe - (365 * yoe + yoe \div 4 - yoe \div 100)
        mp == (5 * doy + 2) \div 153
        d == doy - (153 * mp + 2) \div 5 + 1
        m == IF mp < 10 THEN mp + 3 ELSE mp - 9
        y == yoe + era * 400 + (IF m <= 2 THEN 1 ELSE 0)
    IN  [y |-> y, m |-> m, d |-> d]

Pad2(n) == <<DigitChar(n \div 10), DigitChar(n % 10)>>
Pad4(n) == Pad2(n \div 100) \o Pad2(n % 100)

\* new Date().toISOString().split('T')[0] when the clock is on day `day`
\* (years 0..9999): YYYY-MM-DD in UTC.
toISODate(day) ==
    LET c == CivilFromDays(day)
    IN  Pad4(c.y) \o <<"-">> \o Pad2(c.m) \o <<"-">> \o Pad2(c.d)

\* new Date(text).getTime(): the date-only forms of the ECMAScript date-time
\* string format (YYYY, YYYY-MM, YYYY-MM-DD, read as UTC midnight), NaN for an
\* illegal month or day and for the other texts the model draws (the empty
\* text and words without digits, which no engine's fallback parser reads).
\* The time value is kept in days (getTime() / 86400000, exact for date-only
\* texts): the comparator only subtracts two of them.
getTime(text) ==
    LET n == Len(text)
        okShape ==
            /\ n \in {4, 7, 10}
            /\ IsDigits(SubSeq(text, 1, 4))
            /\ n >= 7 => (text[5] = "-" /\ IsDigits(SubSeq(text, 6, 7)))
            /\ n = 10 => (text[8] = "-" /\ IsDigits(SubSeq(text, 9, 10)))
    IN  IF ~okShape THEN NaN
        ELSE LET y == DecValue(SubSeq(text, 1, 4))
                 m == IF n >= 7 THEN DecValue(SubSeq(text, 6, 7)) ELSE 1
                 d == IF n = 10 THEN DecValue(SubSeq(text, 9, 10)) ELSE 1
             IN  IF m \in 1..12 /\ d \in 1..DaysInMonth(y, m)
                 THEN Num(DaysFromCivil(y, m, d))
                 ELSE NaN

----------------------------------------------------------------------------
(* The BlogPost of one content file, lines 80-91 *)

K_title == <<"t", "i", "t", "l", "e">>
K_description == <<"d", "e", "s", "c", "r", "i", "p", "t", "i", "o", "n">>
K_date == <<"d", "a", "t", "e">>
K_readingTime == <<"r", "e", "a", "d", "i", "n", "g", "T", "i", "m", "e">>
K_category == <<"c", "a", "t", "e", "g", "o", "r", "y">>
K_featured == <<"f", "e", "a", "t", "u", "r", "e", "d">>
K_slug == <<"s", "l", "u", "g">>

Untitled == <<"U", "n", "t", "i", "t", "l", "e", "d">>
General == <<"G", "e", "n", "e", "r", "a", "l">>
DefaultReadingTime == 5

\* BlogPost with the title taken whenever the key is there, of any type.
BlogPost_TitleUnchecked(slug, frontmatter, day) ==
    [slug |-> slug,
     title |-> IF K_title \in DOMAIN frontmatter
               THEN frontmatter[K_title].str ELSE Untitled,
     description |-> IF TypeOf(frontmatter, K_description) = "string"
                     THEN frontmatter[K_description].str ELSE <<>>,
     date |-> IF TypeOf(frontmatter, K_date) = "string"
              THEN frontmatter[K_date].str ELSE toISODate(day),
     readingTime |-> IF TypeOf(frontmatter, K_readingTime) = "number"
                     THEN frontmatter[K_readingTime].num ELSE DefaultReadingTime,
     category |-> IF TypeOf(frontmatter, K_category) = "string"
                  THEN frontmatter[K_category].str ELSE General,
     featured |-> IF TypeOf(frontmatter, K_featured) = "boolean"
                  THEN frontmatter[K_featured].bool ELSE FALSE]

\* BlogPost built as { slug, ...frontmatter }: a string under the key slug in
\* the header replaces the directory name.
BlogPost_SlugFromHeader(slug, frontmatter, day) ==
    [slug |-> IF TypeOf(frontmatter, K_slug) = "string" THEN "from-header" ELSE slug,
     title |-> IF TypeOf(frontmatter, K_title) = "string"
               THEN frontmatter[K_title].str ELSE Untitled,
     description |-> IF TypeOf(frontmatter, K_description) = "string"
                     THEN frontmatter[K_description].str ELSE <<>>,
     date |-> IF TypeOf(frontmatter, K_date) = "string"
              THEN frontmatter[K_date].str ELSE toISODate(day),
     readingTime |-> IF TypeOf(frontmatter, K_readingTime) = "number"
                     THEN frontmatter[K_readingTime].num ELSE DefaultReadingTime,
     category |-> IF TypeOf(frontmatter, K_category) = "string"
                  THEN frontmatter[K_category].str ELSE General,
     featured |-> IF TypeOf(frontmatter, K_featured) = "boolean"
                  THEN frontmatter[K_featured].bool ELSE FALSE]

BlogPost(slug, frontmatter, day) ==
    [slug |-> slug,
     title |-> IF TypeOf(frontmatter, K_title) = "string"
               THEN frontmatter[K_title].str ELSE Untitled,
     description |-> IF TypeOf(frontmatter, K_description) = "string"
                     THEN frontmatter[K_description].str ELSE <<>>,
     date |-> IF TypeOf(frontmatter, K_date) = "string"
              THEN frontmatter[K_date].str ELSE toISODate(day),
     readingTime |-> IF TypeOf(frontmatter, K_readingTime) = "number"
                     THEN frontmatter[K_readingTime].num ELSE DefaultReadingTime,
     category |-> IF TypeOf(frontmatter, K_category) = "string"
                  THEN frontmatter[K_category].str ELSE General,
     featured |-> IF TypeOf(frontmatter, K_featured) = "boolean"
                  THEN frontmatter[K_featured].bool ELSE FALSE]

----------------------------------------------------------------------------
(* blogPosts.sort((a, b) => new Date(b.date).getTime() - new Date(a.date).getTime()) *)

\* The comparator of line 99; NaN when either date does not parse.
comparefn(a, b) ==
    LET ta == getTime(a.date)
        tb == getTime(b.date)
    IN  IF isNaN(ta) \/ isNaN(tb) THEN NaN ELSE Num(tb.val - ta.val)

\* SortCompare of Array.prototype.sort: a NaN from the comparator counts as +0.
SortCompare(a, b) ==
    LET v == comparefn(a, b) IN IF isNaN(v) THEN 0 ELSE v.val

\* ECMAScript's "consistent comparator" for the elements of list: equality
\* under the comparator is transitive and so are both strict orders.
ConsistentComparator(list) ==
    LET I == 1..Len(list)
        c(i, j) == SortCompare(list[i], list[j])
    IN  \A i, j, k \in I :
            /\ (c(i, j) = 0 /\ c(j, k) = 0) => c(i, k) = 0
            /\ (c(i, j) < 0 /\ c(j, k) < 0) => c(i, k) < 0
            /\ (c(i, j) > 0 /\ c(j, k) > 0) => c(i, k) > 0

\* One step of a stable insertion: x goes before the first element that must
\* follow it, after every element that compares equal to it.
Insert(sorted, x) ==
    LET after == {i \in 1..Len(sorted) : SortCompare(sorted[i], x) > 0}
        at == IF after = {} THEN Len(sorted) + 1 ELSE SetMin(after)
    IN  SubSeq(sorted, 1, at - 1) \o <<x>> \o SubSeq(sorted, at, Len(sorted))

RECURSIVE StableSort(_)
StableSort(list) ==
    IF list = <<>> THEN <<>>
    ELSE Insert(StableSort(SubSeq(list, 1, Len(list) - 1)), list[Len(list)])

Reorderings(list) ==
    LET I == 1..Len(list)
    IN  {[i \in I |-> list[p[i]]] :
            p \in {f \in [I -> I] : \A i, j \in I : f[i] = f[j] => i = j}}

\* What Array.prototype.sort may leave in the array: the stable sorted order
\* when the comparator is consistent for the elements, and otherwise an
\* implementation-defined order, any permutation of the elements.
SortOutcomes(list) ==
    IF ConsistentComparator(list) THEN {StableSort(list)} ELSE Reorderings(list)

----------------------------------------------------------------------------
(* The texts the specifications draw *)

Delim == <<"-", "-", "-">>
DelimSp == <<"-", "-", "-", " ">>
Blank == <<>>
Hello == <<"h", "e", "l", "l", "o">>
Soon == <<"s", "o", "o", "n">>
Body == <<"#", " ", "H", "i">>
D20240101 == <<"2", "0", "2", "4", "-", "0", "1", "-", "0", "1">>
D20240110 == <<"2", "0", "2", "4", "-", "0", "1", "-", "1", "0">>
D20240111 == <<"2", "0", "2", "4", "-", "0", "1", "-", "1", "1">>
D20240115 == <<"2", "0", "2", "4", "-", "0", "1", "-", "1", "5">>

Q(s) == <<"'">> \o s \o <<"'">>
DQ(s) == <<"\"">> \o s \o <<"\"">>
KV(key, v) == key \o <<":", " ">> \o v

\* Sequences over S of length lo..hi
SeqsOf(S, lo, hi) == UNION {[1..n -> S] : n \in lo..hi}

\* Lines of the delimiter family: delimiters, blank, key: value, no colon.
StructLines == {Delim, DelimSp, Blank, KV(K_title, Hello), <<"x">>}

TitleValues ==
    {Q(Hello), Hello, DQ(Hello), <<"2", "0", "2", "4">>, Q(<<>>), <<>>, Q(<<" ">>),
     Q(<<"a", ":", " ", "b">>), <<"'">> \o Hello \o <<"\"">>, <<"'">>,
     <<"'">> \o Hello, Hello \o <<"'">>, Q(<<"a", "'", "b">>)}
ReadingTimeValues ==
    {<<"8">>, <<"5">>, Q(<<"5">>), DQ(<<"5">>), <<"0", "5">>, <<"t", "e", "n">>}
DateValues ==
    {Q(D20240115), D20240115, <<"2", "0", "2", "4", "0", "1", "1", "5">>,
     <<"2", "0", "2", "4">>}

\* Lines of the header family.
HeaderLines ==
    {KV(K_title, v) : v \in TitleValues}
      \cup {KV(K_readingTime, v) : v \in ReadingTimeValues}
      \cup {KV(K_date, v) : v \in DateValues}
      \cup {KV(K_description, Q(Hello)), KV(K_category, Q(<<"D", "e", "v">>)),
            KV(K_featured, <<"t", "r", "u", "e">>),
            KV(K_featured, <<"f", "a", "l", "s", "e">>),
            <<" ">> \o K_title \o <<" ", ":", "5">>, Blank, <<"x">>}

\* A document with a closed header of the given lines and a one-line body.
HeaderDoc(lines) == Join(<<Delim>> \o lines \o <<Delim, Body>>, NL)

\* The documents parseFrontmatter is applied to.
DocSet ==
    {Join(ls, NL) : ls \in SeqsOf(StructLines, 0, MaxLines)}
      \cup {Join(<<Delim>> \o h \o <<Delim, Body>>, NL) :
               h \in SeqsOf(HeaderLines, 1, MaxHeaderLines)}

Page(lines) == [ok |-> TRUE, text |-> Join(lines, NL)]
Unreadable == [ok |-> FALSE, text |-> <<>>]

\* The content files load meets: two dated posts, a post whose header has a
\* date that is no date and fields of the wrong type, and a file without front
\* matter (whose date is the day it is read).
PageSet ==
    {Page(<<Delim, KV(K_date, Q(d)), Delim, Body>>) :
        d \in {D20240101, D20240115}}
      \cup {Page(<<Body>>),
            Page(<<Delim, KV(K_title, <<"2", "0", "2", "4">>), KV(K_date, Q(Soon)),
                   KV(K_readingTime, <<"t", "e", "n">>), KV(K_slug, Hello),
                   Delim, Body>>)}

\* The +page.md one level further down, as in posts/<name>/+page.md.
NestedPage ==
    Page(<<Delim, KV(K_title, Q(Hello)), KV(K_date, Q(D20240111)), Delim, Body>>)

Names == <<"alpha", "beta", "gamma", "delta", "epsilon">>

\* A Dirent of the root: a regular file, or a directory whose +page.md is
\* readable (with its text) or not (missing, no permission, a directory).
\* The directory without a +page.md of its own is the shape of posts/: it
\* holds a subdirectory with a +page.md (field nested).
EntryKinds ==
    {[isDirectory |-> FALSE, page |-> Unreadable, nested |-> Unreadable]}
      \cup {[isDirectory |-> TRUE, page |-> pg, nested |-> Unreadable] : pg \in PageSet}
      \cup {[isDirectory |-> TRUE, page |-> Unreadable, nested |-> NestedPage]}

\* The states of the content root: not enumerable, or a directory whose
\* entries come in the order readdir returns them.
FsSet ==
    {[root |-> r, entries |-> <<>>] : r \in {"missing", "notdir", "denied"}}
      \cup {[root |-> "dir",
             entries |-> [i \in DOMAIN ks |->
                             [name |-> Names[i],
                              isDirectory |-> ks[i].isDirectory,
                              page |-> ks[i].page,
                              nested |-> ks[i].nested]]] :
               ks \in SeqsOf(EntryKinds, 0, MaxEntries)}

Day0 == DaysFromCivil(2024, 1, 10)

----------------------------------------------------------------------------
(* The pages of the browser, before any of them is open *)

Submitting == "submitting..."

PageOff == featuredPosts = <<>> /\ recentPosts = <<>>

ThemeOff ==
    /\ storage = "absent"
    /\ prefersDark = FALSE
    /\ isDarkMode = FALSE
    /\ isInitialized = FALSE
    /\ rootDark = FALSE
    /\ tpc = "off"
    /\ dirty = FALSE
    /\ visits = 0
    /\ toggles = 0
    /\ visitStart = FALSE
    /\ lastTheme = "none"

ContactOff == status = "" /\ inflight = 0 /\ lastEvent = "none" /\ submits = 0

UiOff == PageOff /\ ThemeOff /\ ContactOff

----------------------------------------------------------------------------
(* load *)

NoPost ==
    [slug |-> "", title |-> <<>>, description |-> <<>>, date |-> <<>>,
     readingTime |-> 0, category |-> <<>>, featured |-> FALSE]
NoParse == [frontmatter |-> EmptyMap, body |-> <<>>]
NoPrev == [outcome |-> "none", posts |-> <<>>, fs |-> [root |-> "missing", entries |-> <<>>]]

RECURSIVE DirNames(_)
\* entries.filter(entry => entry.isDirectory()).map(entry => entry.name)
DirNames(entries) ==
    IF entries = <<>> THEN <<>>
    ELSE (IF Head(entries).isDirectory THEN <<Head(entries).name>> ELSE <<>>)
            \o DirNames(Tail(entries))

\* readFile falling back on a +page.md one level further down.
readFile_Recursive(f, slug) ==
    LET hits == {i \in DOMAIN f.entries :
                    f.entries[i].name = slug /\ f.entries[i].isDirectory}
    IN  IF f.root = "dir" /\ hits # {}
        THEN LET e == f.entries[SetMin(hits)]
             IN  IF e.page.ok THEN e.page ELSE e.nested
        ELSE Unreadable

\* readFile(join(blogDir, slug, '+page.md'), 'utf-8'): the text, or a throw.
readFile(f, slug) ==
    LET hits == {i \in DOMAIN f.entries :
                    f.entries[i].name = slug /\ f.entries[i].isDirectory}
    IN  IF f.root = "dir" /\ hits # {}
        THEN f.entries[SetMin(hits)].page
        ELSE Unreadable

\* Readdir with the failure of readdir swallowed: an empty listing is returned.
Readdir_EmptyOnFailure ==
    /\ pc = "readdir"
    /\ blogDirs' = IF fs.root = "dir" THEN DirNames(fs.entries) ELSE <<>>
    /\ idx' = 1
    /\ pc' = "loop"
    /\ UNCHANGED <<fs, now, blogPosts, outcome, warnings, parseVars, runVars, uiVars>>

\* Lines 65-71: readdir throws into the outer catch (line 104), which throws
\* error(500, 'Failed to load blog posts'); otherwise the loop starts.
Readdir ==
    /\ pc = "readdir"
    /\ IF fs.root = "dir"
       THEN /\ blogDirs' = DirNames(fs.entries)
            /\ idx' = 1
            /\ pc' = "loop"
            /\ UNCHANGED outcome
       ELSE /\ outcome' = "error500"
            /\ pc' = "done"
            /\ UNCHANGED <<blogDirs, idx>>
    /\ UNCHANGED <<fs, now, blogPosts, warnings, parseVars, runVars, uiVars>>

\* ReadPost with a failed read ending the loop: the later directories are lost.
ReadPost_BreakOnFailure ==
    /\ pc = "loop"
    /\ idx <= Len(blogDirs)
    /\ LET slug == blogDirs[idx]
           file == readFile(fs, slug)
       IN  IF file.ok
           THEN /\ blogPosts' =
                     Append(blogPosts,
                            BlogPost(slug, parseFrontmatter(file.text).frontmatter, now))
                /\ idx' = idx + 1
                /\ UNCHANGED warnings
           ELSE /\ warnings' = Append(warnings, slug)
                /\ idx' = Len(blogDirs) + 1
                /\ UNCHANGED blogPosts
    /\ UNCHANGED <<fs, now, pc, blogDirs, outcome, parseVars, runVars, uiVars>>

\* ReadPost without the inner try: a failed read reaches the outer catch.
ReadPost_Rethrow ==
    /\ pc = "loop"
    /\ idx <= Len(blogDirs)
    /\ LET slug == blogDirs[idx]
           file == readFile(fs, slug)
       IN  IF file.ok
           THEN /\ blogPosts' =
                     Append(blogPosts,
                            BlogPost(slug, parseFrontmatter(file.text).frontmatter, now))
                /\ idx' = idx + 1
                /\ UNCHANGED <<pc, outcome>>
           ELSE /\ outcome' = "error500"
                /\ pc' = "done"
                /\ UNCHANGED <<blogPosts, idx>>
    /\ UNCHANGED <<fs, now, blogDirs, warnings, parseVars, runVars, uiVars>>

\* ReadPost pushing a record of defaults for a file it could not read.
ReadPost_PushOnFailure ==
    /\ pc = "loop"
    /\ idx <= Len(blogDirs)
    /\ LET slug == blogDirs[idx]
           file == readFile(fs, slug)
       IN  IF file.ok
           THEN /\ blogPosts' =
                     Append(blogPosts,
                            BlogPost(slug, parseFrontmatter(file.text).frontmatter, now))
                /\ UNCHANGED warnings
           ELSE /\ warnings' = Append(warnings, slug)
                /\ blogPosts' = Append(blogPosts, BlogPost(slug, EmptyMap, now))
    /\ idx' = idx + 1
    /\ UNCHANGED <<fs, now, pc, blogDirs, outcome, parseVars, runVars, uiVars>>

\* ReadPost creating the +page.md it could not read (an empty post).
ReadPost_CreateMissing ==
    /\ pc = "loop"
    /\ idx <= Len(blogDirs)
    /\ LET slug == blogDirs[idx]
           file == readFile(fs, slug)
       IN  IF file.ok
           THEN /\ blogPosts' =
                     Append(blogPosts,
                            BlogPost(slug, parseFrontmatter(file.text).frontmatter, now))
                /\ UNCHANGED <<warnings, fs>>
           ELSE /\ warnings' = Append(warnings, slug)
                /\ fs' = [fs EXCEPT !.entries =
                             [i \in DOMAIN fs.entries |->
                                 IF fs.entries[i].name = slug
                                 THEN [fs.entries[i] EXCEPT !.page = Page(<<Body>>)]
                                 ELSE fs.entries[i]]]
                /\ UNCHANGED blogPosts
    /\ idx' = idx + 1
    /\ UNCHANGED <<now, pc, blogDirs, outcome, parseVars, runVars, uiVars>>

\* Lines 73-97, one iteration: read, parse, build and push, or warn and go on.
ReadPost ==
    /\ pc = "loop"
    /\ idx <= Len(blogDirs)
    /\ LET slug == blogDirs[idx]
           file == readFile(fs, slug)
       IN  IF file.ok
           THEN /\ blogPosts' =
                     Append(blogPosts,
                            BlogPost(slug, parseFrontmatter(file.text).frontmatter, now))
                /\ UNCHANGED warnings
           ELSE /\ warnings' = Append(warnings, slug)
                /\ UNCHANGED blogPosts
    /\ idx' = idx + 1
    /\ UNCHANGED <<fs, now, pc, blogDirs, outcome, parseVars, runVars, uiVars>>

\* Lines 99-103: sort in place and return.
SortAndReturn ==
    /\ pc = "loop"
    /\ idx > Len(blogDirs)
    /\ \E sorted \in SortOutcomes(blogPosts) : blogPosts' = sorted
    /\ outcome' = "returned"
    /\ pc' = "done"
    /\ UNCHANGED <<fs, now, blogDirs, idx, warnings, parseVars, runVars, uiVars>>

\* The clock passes midnight while the loop still has a file to read (line 87
\* is the only place that reads it).
Tick ==
    /\ pc = "loop"
    /\ idx <= Len(blogDirs)
    /\ now < Day0 + MaxTicks
    /\ now' = now + 1
    /\ UNCHANGED <<fs, pc, blogDirs, idx, blogPosts, outcome, warnings, parseVars, runVars, uiVars>>

Init ==
    /\ fs \in FsSet
    /\ now = Day0
    /\ pc = "readdir"
    /\ blogDirs = <<>>
    /\ idx = 1
    /\ blogPosts = <<>>
    /\ outcome = "none"
    /\ warnings = <<>>
    /\ content = <<>>
    /\ parsed = NoParse
    /\ post = NoPost
    /\ ppc = "off"
    /\ calls = 1
    /\ prev = NoPrev
    /\ memo = <<>>
    /\ UiOff

Next == Readdir \/ ReadPost \/ SortAndReturn \/ Tick

Spec == Init /\ [][Next]_vars

----------------------------------------------------------------------------
(* One document through parseFrontmatter and the record construction *)

\* Parse with the object of line 33 hoisted to module scope: the entries of
\* the earlier calls that matched are still in it.
Parse_SharedFrontmatter ==
    /\ ppc = "parse"
    /\ LET match == frontmatterRegex(content)
           hits == {i \in DOMAIN memo : frontmatterRegex(memo[i].content).matched}
           shared == IF hits = {} THEN EmptyMap
                     ELSE memo[SetMax(hits)].result.frontmatter
       IN  parsed' = IF ~match.matched
                     THEN [frontmatter |-> EmptyMap, body |-> content]
                     ELSE [frontmatter |-> ParseLines(Split(match.text, NL), shared),
                           body |-> match.body]
    /\ memo' = Append(memo, [content |-> content, result |-> parsed'])
    /\ ppc' = "build"
    /\ UNCHANGED <<content, post, loadVars>>

\* A call of parseFrontmatter: the expression (line 23, no g or y flag), the
\* match and the frontmatter object (line 33) are created by the call, and the
\* result is a function of the argument alone.
Parse ==
    /\ ppc = "parse"
    /\ parsed' = parseFrontmatter(content)
    /\ memo' = Append(memo, [content |-> content, result |-> parsed'])
    /\ ppc' = "build"
    /\ UNCHANGED <<content, post, loadVars>>

Build ==
    /\ ppc = "build"
    /\ post' = BlogPost("post", parsed.frontmatter, now)
    /\ ppc' = "done"
    /\ UNCHANGED <<content, parsed, memo, loadVars>>

InitParse ==
    /\ content \in DocSet
    /\ parsed = NoParse
    /\ post = NoPost
    /\ ppc = "parse"
    /\ fs = [root |-> "dir", entries |-> <<>>]
    /\ now \in Day0..(Day0 + MaxTicks)
    /\ pc = "off"
    /\ blogDirs = <<>>
    /\ idx = 1
    /\ blogPosts = <<>>
    /\ outcome = "none"
    /\ warnings = <<>>
    /\ calls = 1
    /\ prev = NoPrev
    /\ memo = <<>>
    /\ UiOff

NextParse == Parse \/ Build

SpecParse == InitParse /\ [][NextParse]_vars

----------------------------------------------------------------------------
(* parseFrontmatter called again and again *)

MaxParses == 3

\* Documents of the repeated calls: closed headers with one and two entries,
\* a text without front matter, a header that is never closed.
TwiceDocs ==
    {HeaderDoc(<<KV(K_title, Q(Hello))>>),
     HeaderDoc(<<KV(K_readingTime, <<"8">>)>>),
     HeaderDoc(<<KV(K_title, Hello), KV(K_date, Q(D20240115))>>),
     Body,
     Join(<<Delim, KV(K_title, Hello)>>, NL)}

\* The next file of the loop of lines 73-97 reaches line 78.
NextInput ==
    /\ ppc = "done"
    /\ calls < MaxParses
    /\ \E c \in TwiceDocs : content' = c
    /\ calls' = calls + 1
    /\ ppc' = "parse"
    /\ UNCHANGED <<parsed, post, memo, fs, now, pc, blogDirs, idx, blogPosts,
                   outcome, warnings, prev, uiVars>>

InitTwice ==
    /\ content \in TwiceDocs
    /\ parsed = NoParse
    /\ post = NoPost
    /\ ppc = "parse"
    /\ fs = [root |-> "dir", entries |-> <<>>]
    /\ now = Day0
    /\ pc = "off"
    /\ blogDirs = <<>>
    /\ idx = 1
    /\ blogPosts = <<>>
    /\ outcome = "none"
    /\ warnings = <<>>
    /\ calls = 1
    /\ prev = NoPrev
    /\ memo = <<>>
    /\ UiOff

NextTwice == Parse \/ Build \/ NextInput

SpecTwice == InitTwice /\ [][NextTwice]_vars

----------------------------------------------------------------------------
(* load called again, on the same root or after the root was changed *)

MaxCalls == 2
MaxRunEntries == 2

RunKinds ==
    {[isDirectory |-> FALSE, page |-> Unreadable, nested |-> Unreadable],
     [isDirectory |-> TRUE, page |-> Page(<<Delim, KV(K_date, Q(D20240101)), Delim, Body>>),
      nested |-> Unreadable],
     [isDirectory |-> TRUE, page |-> Page(<<Body>>), nested |-> Unreadable],
     [isDirectory |-> TRUE, page |-> Unreadable, nested |-> NestedPage]}

RunFsSet ==
    {[root |-> "missing", entries |-> <<>>]}
      \cup {[root |-> "dir",
             entries |-> [i \in DOMAIN ks |->
                             [name |-> Names[i],
                              isDirectory |-> ks[i].isDirectory,
                              page |-> ks[i].page,
                              nested |-> ks[i].nested]]] :
               ks \in SeqsOf(RunKinds, 0, MaxRunEntries)}

\* Call with the array of line 71 hoisted to module scope: the records of the
\* earlier call are still in it.
Call_KeepPosts ==
    /\ pc \in {"done", "idle"}
    /\ calls < MaxCalls
    /\ calls' = calls + 1
    /\ prev' = IF pc = "done"
               THEN [outcome |-> outcome, posts |-> blogPosts, fs |-> fs]
               ELSE prev
    /\ pc' = "readdir"
    /\ blogDirs' = <<>>
    /\ idx' = 1
    /\ outcome' = "none"
    /\ warnings' = <<>>
    /\ UNCHANGED <<fs, now, blogPosts, parseVars, uiVars>>

\* The next request: load is entered again (line 61). Its locals of lines
\* 65-71 are new; nothing of the earlier call is in scope.
Call ==
    /\ pc \in {"done", "idle"}
    /\ calls < MaxCalls
    /\ calls' = calls + 1
    /\ prev' = IF pc = "done"
               THEN [outcome |-> outcome, posts |-> blogPosts, fs |-> fs]
               ELSE prev
    /\ pc' = "readdir"
    /\ blogDirs' = <<>>
    /\ idx' = 1
    /\ blogPosts' = <<>>
    /\ outcome' = "none"
    /\ warnings' = <<>>
    /\ UNCHANGED <<fs, now, parseVars, uiVars>>

\* Between two requests content files are added, removed or changed.
Touch ==
    /\ pc = "done"
    /\ calls < MaxCalls
    /\ \E f \in RunFsSet \ {fs} : fs' = f
    /\ prev' = [outcome |-> outcome, posts |-> blogPosts, fs |-> fs]
    /\ pc' = "idle"
    /\ UNCHANGED <<now, blogDirs, idx, blogPosts, outcome, warnings, calls, parseVars, uiVars>>

InitRuns ==
    /\ fs \in RunFsSet
    /\ now = Day0
    /\ pc = "readdir"
    /\ blogDirs = <<>>
    /\ idx = 1
    /\ blogPosts = <<>>
    /\ outcome = "none"
    /\ warnings = <<>>
    /\ content = <<>>
    /\ parsed = NoParse
    /\ post = NoPost
    /\ ppc = "off"
    /\ calls = 1
    /\ prev = NoPrev
    /\ memo = <<>>
    /\ UiOff

NextRuns == Readdir \/ ReadPost \/ SortAndReturn \/ Tick \/ Call \/ Touch

SpecRuns == InitRuns /\ [][NextRuns]_vars

----------------------------------------------------------------------------
(* The blog page: load, then the two lists of +page.svelte *)

MaxPageEntries == 3

RECURSIVE filter(_, _)
\* Array.prototype.filter on the featured flag: the elements whose flag is
\* wanted, in the order of the array.
filter(list, wanted) ==
    IF list = <<>> THEN <<>>
    ELSE (IF Head(list).featured = wanted THEN <<Head(list)>> ELSE <<>>)
            \o filter(Tail(list), wanted)

\* part_008 lines 29-31, run when the page is rendered with load's result.
Render ==
    /\ pc = "done"
    /\ outcome = "returned"
    /\ featuredPosts' = filter(blogPosts, TRUE)
    /\ recentPosts' = filter(blogPosts, FALSE)
    /\ pc' = "rendered"
    /\ UNCHANGED <<fs, now, blogDirs, idx, blogPosts, outcome, warnings, parseVars,
                   runVars, themeVars, contactVars>>

\* Roots of the blog page: the content files load meets, and a regular file.
PageFsSet ==
    {[root |-> "missing", entries |-> <<>>]}
      \cup {[root |-> "dir",
             entries |-> [i \in DOMAIN ks |->
                             [name |-> Names[i],
                              isDirectory |-> ks[i].isDirectory,
                              page |-> ks[i].page,
                              nested |-> ks[i].nested]]] :
               ks \in SeqsOf(EntryKinds, 0, MaxPageEntries)}

InitPage ==
    /\ fs \in PageFsSet
    /\ now = Day0
    /\ pc = "readdir"
    /\ blogDirs = <<>>
    /\ idx = 1
    /\ blogPosts = <<>>
    /\ outcome = "none"
    /\ warnings = <<>>
    /\ content = <<>>
    /\ parsed = NoParse
    /\ post = NoPost
    /\ ppc = "off"
    /\ calls = 1
    /\ prev = NoPrev
    /\ memo = <<>>
    /\ UiOff

NextPage == Readdir \/ ReadPost \/ SortAndReturn \/ Tick \/ Render

SpecPage == InitPage /\ [][NextPage]_vars

----------------------------------------------------------------------------
(* The theme: the store module, the layout's effect, the toggle button *)

MaxVisits == 3
MaxToggles == 2

\* part_000 line 3, in the browser: the stored theme, and the system
\* preference only when localStorage has no key theme.
initialValue(stored, prefers) ==
    stored = "dark" \/ (stored = "absent" /\ prefers)

\* The effect with localStorage.removeItem('theme') in its else branch.
themeEffect_RemoveKey(dark) ==
    [storage |-> IF dark THEN "dark" ELSE "absent", rootDark |-> dark]

\* part_010 lines 614-622: the class of the document root and
\* localStorage.theme, both written in either branch.
themeEffect(dark) ==
    [storage |-> IF dark THEN "dark" ELSE "", rootDark |-> dark]

\* A page of the site is loaded: the store module runs (part_000 lines
\* 3-9). app.html is not among the sources: the class the served document
\* starts with is left open.
LoadPage ==
    /\ tpc = "closed"
    /\ visits < MaxVisits
    /\ visits' = visits + 1
    /\ isDarkMode' = initialValue(storage, prefersDark)
    /\ isInitialized' = TRUE
    /\ \E c \in BOOLEAN : rootDark' = c
    /\ visitStart' = isDarkMode'
    /\ toggles' = 0
    /\ dirty' = FALSE
    /\ tpc' = "loaded"
    /\ UNCHANGED <<storage, prefersDark, lastTheme, pageVars, contactVars,
                   fs, now, pc, blogDirs, idx, blogPosts, outcome, warnings,
                   runVars, parseVars>>

\* onMount of the layout (part_010 line 613): the effect is created and runs.
Mount ==
    /\ tpc = "loaded"
    /\ storage' = themeEffect(isDarkMode).storage
    /\ rootDark' = themeEffect(isDarkMode).rootDark
    /\ tpc' = "mounted"
    /\ UNCHANGED <<prefersDark, isDarkMode, isInitialized, dirty, visits, toggles,
                   visitStart, lastTheme, pageVars, contactVars,
                   fs, now, pc, blogDirs, idx, blogPosts, outcome, warnings,
                   runVars, parseVars>>

\* A toggle that always switches to dark.
toggleDarkMode_SetDark ==
    /\ tpc = "mounted"
    /\ toggles < MaxToggles
    /\ toggles' = toggles + 1
    /\ isDarkMode' = TRUE
    /\ dirty' = TRUE
    /\ UNCHANGED <<storage, prefersDark, isInitialized, rootDark, tpc, visits,
                   visitStart, lastTheme, pageVars, contactVars,
                   fs, now, pc, blogDirs, idx, blogPosts, outcome, warnings,
                   runVars, parseVars>>

\* part_000 lines 13-15, called by the button of the navigation bar.
toggleDarkMode ==
    /\ tpc = "mounted"
    /\ toggles < MaxToggles
    /\ toggles' = toggles + 1
    /\ isDarkMode' = ~isDarkMode
    /\ dirty' = TRUE
    /\ UNCHANGED <<storage, prefersDark, isInitialized, rootDark, tpc, visits,
                   visitStart, lastTheme, pageVars, contactVars,
                   fs, now, pc, blogDirs, idx, blogPosts, outcome, warnings,
                   runVars, parseVars>>

\* The effect reruns after theme.isDarkMode was written.
RunEffect ==
    /\ tpc = "mounted"
    /\ dirty
    /\ storage' = themeEffect(isDarkMode).storage
    /\ rootDark' = themeEffect(isDarkMode).rootDark
    /\ dirty' = FALSE
    /\ UNCHANGED <<prefersDark, isDarkMode, isInitialized, tpc, visits, toggles,
                   visitStart, lastTheme, pageVars, contactVars,
                   fs, now, pc, blogDirs, idx, blogPosts, outcome, warnings,
                   runVars, parseVars>>

\* The page is left (the effect runs in the task of the click that made it
\* pending, so none is pending then); localStorage stays.
ClosePage ==
    /\ tpc \in {"loaded", "mounted"}
    /\ ~dirty
    /\ lastTheme' = IF tpc = "mounted"
                    THEN (IF isDarkMode THEN "dark" ELSE "light")
                    ELSE lastTheme
    /\ tpc' = "closed"
    /\ UNCHANGED <<storage, prefersDark, isDarkMode, isInitialized, rootDark, dirty,
                   visits, toggles, visitStart, pageVars, contactVars,
                   fs, now, pc, blogDirs, idx, blogPosts, outcome, warnings,
                   runVars, parseVars>>

\* The system colour scheme changes, between visits or on a mounted page.
PrefChange ==
    /\ tpc \in {"closed", "mounted"}
    /\ prefersDark' = ~prefersDark
    /\ UNCHANGED <<storage, isDarkMode, isInitialized, rootDark, tpc, dirty,
                   visits, toggles, visitStart, lastTheme, pageVars, contactVars,
                   fs, now, pc, blogDirs, idx, blogPosts, outcome, warnings,
                   runVars, parseVars>>

InitTheme ==
    /\ storage = "absent"
    /\ prefersDark \in BOOLEAN
    /\ isDarkMode = FALSE
    /\ isInitialized = FALSE
    /\ rootDark = FALSE
    /\ tpc = "closed"
    /\ dirty = FALSE
    /\ visits = 0
    /\ toggles = 0
    /\ visitStart = FALSE
    /\ lastTheme = "none"
    /\ PageOff
    /\ ContactOff
    /\ fs = [root |-> "dir", entries |-> <<>>]
    /\ now = Day0
    /\ pc = "off"
    /\ blogDirs = <<>>
    /\ idx = 1
    /\ blogPosts = <<>>
    /\ outcome = "none"
    /\ warnings = <<>>
    /\ content = <<>>
    /\ parsed = NoParse
    /\ post = NoPost
    /\ ppc = "off"
    /\ calls = 1
    /\ prev = NoPrev
    /\ memo = <<>>

NextTheme == LoadPage \/ Mount \/ toggleDarkMode \/ RunEffect \/ ClosePage \/ PrefChange

SpecTheme == InitTheme /\ [][NextTheme]_vars

----------------------------------------------------------------------------
(* The contact form: handleSubmit of Contact.svelte *)

MaxSubmits == 5

\* result.message of a response that reports success: none or empty, or a text.
Messages == {"", "Form submitted successfully"}

\* Lines 10-25: the form is submitted; status is set and the request is sent.
\* The button is never disabled: a submission may follow while others wait.
Submit ==
    /\ submits < MaxSubmits
    /\ submits' = submits + 1
    /\ status' = Submitting
    /\ inflight' = inflight + 1
    /\ lastEvent' = "submit"
    /\ UNCHANGED <<pageVars, themeVars, fs, now, pc, blogDirs, idx, blogPosts,
                   outcome, warnings, runVars, parseVars>>

\* Lines 26-30, result.success truthy: status = result.message || 'Success'.
RespondSuccess ==
    /\ inflight > 0
    /\ inflight' = inflight - 1
    /\ \E message \in Messages :
          status' = IF message = "" THEN "Success" ELSE message
    /\ lastEvent' = "success"
    /\ UNCHANGED <<submits, pageVars, themeVars, fs, now, pc, blogDirs, idx,
                   blogPosts, outcome, warnings, runVars, parseVars>>

\* RespondFailure with an else branch that shows the error.
RespondFailure_ShowError ==
    /\ inflight > 0
    /\ inflight' = inflight - 1
    /\ status' = "Something went wrong"
    /\ lastEvent' = "failure"
    /\ UNCHANGED <<submits, pageVars, themeVars, fs, now, pc, blogDirs, idx,
                   blogPosts, outcome, warnings, runVars, parseVars>>

\* Lines 26-27, result.success falsy: the if has no else, nothing is written.
RespondFailure ==
    /\ inflight > 0
    /\ inflight' = inflight - 1
    /\ lastEvent' = "failure"
    /\ UNCHANGED <<status, submits, pageVars, themeVars, fs, now, pc, blogDirs, idx,
                   blogPosts, outcome, warnings, runVars, parseVars>>

\* Lines 18-26: fetch rejects or response.json() throws; handleSubmit has no
\* try, its promise rejects and nothing is written.
RequestThrows ==
    /\ inflight > 0
    /\ inflight' = inflight - 1
    /\ lastEvent' = "throw"
    /\ UNCHANGED <<status, submits, pageVars, themeVars, fs, now, pc, blogDirs, idx,
                   blogPosts, outcome, warnings, runVars, parseVars>>

InitContact ==
    /\ ContactOff
    /\ PageOff
    /\ ThemeOff
    /\ fs = [root |-> "dir", entries |-> <<>>]
    /\ now = Day0
    /\ pc = "off"
    /\ blogDirs = <<>>
    /\ idx = 1
    /\ blogPosts = <<>>
    /\ outcome = "none"
    /\ warnings = <<>>
    /\ content = <<>>
    /\ parsed = NoParse
    /\ post = NoPost
    /\ ppc = "off"
    /\ calls = 1
    /\ prev = NoPrev
    /\ memo = <<>>

NextContact == Submit \/ RespondSuccess \/ RespondFailure \/ RequestThrows

SpecContact == InitContact /\ [][NextContact]_vars

----------------------------------------------------------------------------
(* Claims about load, checked under Spec *)

Range(f) == {f[i] : i \in DOMAIN f}

Returned == pc = "done" /\ outcome = "returned"

\* Position of a subdirectory in the order readdir returned it.
ScanPos(slug) == CHOOSE i \in 1..Len(blogDirs) : blogDirs[i] = slug

PostsOf(name) == {i \in DOMAIN blogPosts : blogPosts[i].slug = name}

\* C1: the returned collection is sorted by date descending, dates compared as
\* parsed calendar dates: no record comes before a record of a later date.
C1_SortedByDate ==
    Returned =>
        \A i, j \in DOMAIN blogPosts :
            i < j =>
                LET ti == getTime(blogPosts[i].date)
                    tj == getTime(blogPosts[j].date)
                IN  ~(~isNaN(ti) /\ ~isNaN(tj) /\ ti.val < tj.val)

\* C2: a subdirectory whose content file cannot be read is skipped (with a
\* warning), load does not raise, and every subdirectory whose content file is
\* readable has its record, wherever the failing subdirectory is in the scan.
C2_UnreadableSkipped ==
    (pc = "done" /\ fs.root = "dir") =>
        /\ outcome = "returned"
        /\ \A e \in Range(fs.entries) :
              e.isDirectory =>
                  IF e.page.ok
                  THEN Cardinality(PostsOf(e.name)) = 1
                  ELSE PostsOf(e.name) = {} /\ e.name \in Range(warnings)

\* A failing subdirectory between two readable ones, both of them listed.
C2_Witness ==
    /\ Returned
    /\ \E i, j, k \in DOMAIN blogDirs :
          /\ i < j /\ j < k
          /\ blogDirs[j] \in Range(warnings)
          /\ PostsOf(blogDirs[i]) # {}
          /\ PostsOf(blogDirs[k]) # {}

\* C3: when the root cannot be enumerated, load ends with the single error
\* 500 and never returns a list, empty or partial.
C3_RootFailureIsError ==
    fs.root # "dir" =>
        /\ outcome # "returned"
        /\ blogPosts = <<>>
        /\ pc = "done" => outcome = "error500"

C3_Witness == pc = "done" /\ fs.root = "missing" /\ outcome = "error500"

\* C4: load raises if and only if enumerating the root fails; with an
\* enumerable root it returns a list whatever the content files hold.
C4_RaisesOnlyOnRootFailure ==
    pc = "done" =>
        /\ outcome = "error500" <=> fs.root # "dir"
        /\ outcome = "returned" <=> fs.root = "dir"

\* A list is returned although one file was unreadable, one had no
\* delimiters, and one had a numeric title and a date that is no date.
C4_Witness ==
    /\ Returned
    /\ warnings # <<>>
    /\ \E i, j \in DOMAIN blogPosts :
          /\ isNaN(getTime(blogPosts[i].date))
          /\ blogPosts[i].title = Untitled
          /\ blogPosts[i].readingTime = 5
          /\ readFile(fs, blogPosts[j].slug).text = Body

ReadableDirs(f) == {e.name : e \in {x \in Range(f.entries) : x.isDirectory /\ x.page.ok}}

\* C11: the result holds a record for a subdirectory if and only if its
\* +page.md was read: exactly one record for each such subdirectory, none for
\* any other entry of the root, and no record that belongs to no entry.
C11_RecordIffPageRead ==
    Returned =>
        /\ {blogPosts[j].slug : j \in DOMAIN blogPosts} = ReadableDirs(fs)
        /\ Len(blogPosts) = Cardinality(ReadableDirs(fs))

\* A root with a regular file, a subdirectory without a readable +page.md
\* and a subdirectory with one; the list is returned.
C11_Witness ==
    /\ Returned
    /\ blogPosts # <<>>
    /\ \E a, b \in Range(fs.entries) :
          /\ ~a.isDirectory
          /\ b.isDirectory /\ ~b.page.ok

\* C15: the slug of every record is non-empty and is the name of the
\* subdirectory the record was read from, also when the header of the file
\* has a key slug.
C15_SlugIsDirectoryName ==
    \A j \in DOMAIN blogPosts :
        /\ blogPosts[j].slug # ""
        /\ blogPosts[j].slug \in ReadableDirs(fs)
        /\ blogPosts[j].slug \in Range(SubSeq(blogDirs, 1, idx - 1))

\* A returned record whose file has the line slug: hello in its header.
C15_Witness ==
    /\ Returned
    /\ \E j \in DOMAIN blogPosts :
          /\ blogPosts[j].slug \in Range(Names)
          /\ TypeOf(parseFrontmatter(readFile(fs, blogPosts[j].slug).text).frontmatter,
                    K_slug) = "string"

\* C20: only the immediate entries of the root are looked at: a regular file
\* of the root is neither read nor warned about and has no record, and a
\* +page.md one level below a subdirectory gives that subdirectory no record.
C20_OnlyImmediateDirectories ==
    \A e \in Range(fs.entries) :
        /\ ~e.isDirectory =>
              /\ PostsOf(e.name) = {}
              /\ e.name \notin Range(blogDirs)
              /\ e.name \notin Range(warnings)
        /\ (e.isDirectory /\ ~e.page.ok /\ e.nested.ok) =>
              /\ PostsOf(e.name) = {}
              /\ \A j \in DOMAIN blogPosts : blogPosts[j].title # Hello

\* A returned list over a root with a regular file and a subdirectory whose
\* only +page.md is one level further down, next to a readable one.
C20_Witness ==
    /\ Returned
    /\ \E a, b, c \in Range(fs.entries) :
          /\ ~a.isDirectory
          /\ b.isDirectory /\ ~b.page.ok /\ b.nested.ok
          /\ c.isDirectory /\ c.page.ok /\ PostsOf(c.name) # {}
          /\ b.name \in Range(warnings)

\* C22: no step of load creates, deletes or changes a file or a directory of
\* the content root: the root after a call, returned or failed, is the root
\* before it.
C22_RootUntouched == [][fs' = fs]_vars

\* A call that returned records after it met a regular file and an unreadable
\* subdirectory, and a call that failed on a root it could not enumerate.
C22_Witness ==
    /\ pc = "done"
    /\ \/ /\ outcome = "returned"
          /\ blogPosts # <<>>
          /\ warnings # <<>>
          /\ \E e \in Range(fs.entries) : ~e.isDirectory
       \/ outcome = "error500"

----------------------------------------------------------------------------
(* Claims about repeated calls of load, checked under SpecRuns *)

\* C13: two runs of load on the same content root return the same records in
\* the same order (up to the order of records of equal dates), whenever each
\* of them runs.
C13_SameRootSameResult ==
    (pc = "done" /\ calls >= 2 /\ prev.fs = fs) =>
        /\ outcome = prev.outcome
        /\ Len(blogPosts) = Len(prev.posts)
        /\ Range(blogPosts) = Range(prev.posts)
        /\ \A i \in DOMAIN blogPosts : blogPosts[i].date = prev.posts[i].date

\* C16: load keeps nothing between calls: whatever the earlier call returned
\* and whatever the root held then, a call returns the listing of the root as
\* it is now, or error 500 when the root cannot be enumerated now.
C16_ListingOfCurrentRoot ==
    pc = "done" =>
        IF fs.root = "dir"
        THEN /\ outcome = "returned"
             /\ Len(blogPosts) = Cardinality(ReadableDirs(fs))
             /\ \A name \in ReadableDirs(fs) :
                   \E j \in DOMAIN blogPosts, d \in Day0..now :
                       LET fm == parseFrontmatter(readFile(fs, name).text).frontmatter
                       IN  /\ blogPosts[j].slug = name
                           /\ blogPosts[j].date =
                                 IF TypeOf(fm, K_date) = "string" THEN fm[K_date].str
                                 ELSE toISODate(d)
        ELSE outcome = "error500"

\* The second call, after the root was changed, returns another listing than
\* the first; both are lists with records.
C16_Witness ==
    /\ Returned
    /\ calls = 2
    /\ prev.outcome = "returned"
    /\ prev.fs # fs
    /\ prev.posts # <<>>
    /\ blogPosts # <<>>
    /\ {blogPosts[j].slug : j \in DOMAIN blogPosts}
          # {prev.posts[j].slug : j \in DOMAIN prev.posts}

----------------------------------------------------------------------------
(* Claims about the blog page, checked under SpecPage *)

\* Position of a post in the list; 0 when it is not in it.
PosIn(list, slug) ==
    IF \E i \in DOMAIN list : list[i].slug = slug
    THEN CHOOSE i \in DOMAIN list : list[i].slug = slug
    ELSE 0

\* No record of the list comes before a record of a later date.
DateDescending(list) ==
    \A i, j \in DOMAIN list :
        i < j =>
            LET ti == getTime(list[i].date)
                tj == getTime(list[j].date)
            IN  ~(~isNaN(ti) /\ ~isNaN(tj) /\ ti.val < tj.val)

\* Every loaded post is in exactly one of the two lists, the one its flag
\* says, and each list has its posts in the order of the loaded collection.
ListsPartition ==
    /\ Len(featuredPosts) + Len(recentPosts) = Len(blogPosts)
    /\ \A i \in DOMAIN blogPosts :
          LET p == blogPosts[i]
          IN  IF p.featured
              THEN PosIn(featuredPosts, p.slug) > 0 /\ PosIn(recentPosts, p.slug) = 0
              ELSE PosIn(recentPosts, p.slug) > 0 /\ PosIn(featuredPosts, p.slug) = 0
    /\ \A i \in DOMAIN featuredPosts : featuredPosts[i] \in Range(blogPosts)
    /\ \A i \in DOMAIN recentPosts : recentPosts[i] \in Range(blogPosts)
    /\ \A i, j \in DOMAIN featuredPosts :
          i < j => PosIn(blogPosts, featuredPosts[i].slug)
                     < PosIn(blogPosts, featuredPosts[j].slug)
    /\ \A i, j \in DOMAIN recentPosts :
          i < j => PosIn(blogPosts, recentPosts[i].slug)
                     < PosIn(blogPosts, recentPosts[j].slug)

\* C26: the featured list and the recent list partition the loaded posts
\* (featured when the flag is true, recent otherwise), and each list has its
\* posts in the date-descending order of the loaded collection.
C26_ListsPartitionInDateOrder ==
    pc = "rendered" =>
        /\ ListsPartition
        /\ DateDescending(featuredPosts)
        /\ DateDescending(recentPosts)

----------------------------------------------------------------------------
(* Claims about repeated calls of parseFrontmatter, checked under SpecTwice *)

----------------------------------------------------------------------------
(* Claims about parseFrontmatter and the record, checked under SpecParse *)

Parsed == ppc \in {"build", "done"}

DocLines == Split(content, NL)

\* A delimiter line: --- and nothing else but trailing white space.
IsDelimLine(l) == HasDashes(l, 1) /\ \A i \in 4..Len(l) : l[i] \in WhiteSpace

\* The document begins with a delimiter line and has a later one.
HasDelimiterPair ==
    /\ IsDelimLine(DocLines[1])
    /\ \E j \in 2..Len(DocLines) : IsDelimLine(DocLines[j])

\* A well-formed header line for each recognized key, with the declared type
\* and the value it denotes.
WellFormedLines ==
    {[line |-> KV(K_title, Q(Hello)), key |-> K_title, v |-> StrV(Hello)],
     [line |-> KV(K_description, Q(Hello)), key |-> K_description, v |-> StrV(Hello)],
     [line |-> KV(K_date, Q(D20240115)), key |-> K_date, v |-> StrV(D20240115)],
     [line |-> KV(K_readingTime, <<"8">>), key |-> K_readingTime, v |-> NumV(8)],
     [line |-> KV(K_category, Q(<<"D", "e", "v">>)), key |-> K_category,
      v |-> StrV(<<"D", "e", "v">>)],
     [line |-> KV(K_featured, <<"t", "r", "u", "e">>), key |-> K_featured,
      v |-> BoolV(TRUE)],
     [line |-> KV(K_featured, <<"f", "a", "l", "s", "e">>), key |-> K_featured,
      v |-> BoolV(FALSE)]}

\* C5: a well-formed header of recognized keys gives a FieldMap with exactly
\* those keys and values of the declared types (string, number, boolean), and
\* 'featured: true' makes the record's featured flag true.
C5_WellFormedHeaderTyped ==
    \A h \in SeqsOf(WellFormedLines, 1, MaxHeaderLines) :
        (/\ \A i, j \in DOMAIN h : h[i].key = h[j].key => i = j
         /\ content = HeaderDoc([i \in DOMAIN h |-> h[i].line]))
            => /\ Parsed =>
                    /\ DOMAIN parsed.frontmatter = {h[i].key : i \in DOMAIN h}
                    /\ \A i \in DOMAIN h : parsed.frontmatter[h[i].key] = h[i].v
               /\ ppc = "done" =>
                    (post.featured <=>
                        \E i \in DOMAIN h : h[i].key = K_featured /\ h[i].v.bool)

\* C6: a text without the opening delimiter line or without a later closing
\* one gives an empty FieldMap and a body equal to the whole text.
C6_NoDelimitersNoMetadata ==
    (Parsed /\ ~HasDelimiterPair) =>
        /\ DOMAIN parsed.frontmatter = {}
        /\ parsed.body = content

\* An opened header that is never closed: its key: value line is not read.
C6_Witness ==
    /\ ppc = "done"
    /\ content = Join(<<Delim, KV(K_title, Hello)>>, NL)
    /\ DOMAIN parsed.frontmatter = {}
    /\ parsed.body = content
    /\ post.title = Untitled

\* C7: when the document begins with a delimiter line and has a later one, the
\* FieldMap is read from the lines between the first delimiter line and the
\* next one (also an empty block, also a closing line that ends the file) and
\* the body is the text after that closing line.
C7_BlockIsBetweenDelimiters ==
    (Parsed /\ HasDelimiterPair) =>
        LET close == SetMin({j \in 2..Len(DocLines) : IsDelimLine(DocLines[j])})
        IN  /\ parsed.frontmatter = ParseLines(SubSeq(DocLines, 2, close - 1), EmptyMap)
            /\ parsed.body = Join(SubSeq(DocLines, close + 1, Len(DocLines)), NL)

\* C8: every field of the record is the extracted value when that has the
\* declared type, and otherwise (key absent, or a value of another type) the
\* documented default; a value of the wrong type is never coerced.
C8_DefaultsNoCoercion ==
    ppc = "done" =>
        LET fm == parsed.frontmatter
        IN  /\ post.title = IF TypeOf(fm, K_title) = "string" THEN fm[K_title].str
                            ELSE <<"U", "n", "t", "i", "t", "l", "e", "d">>
            /\ post.description = IF TypeOf(fm, K_description) = "string"
                                  THEN fm[K_description].str ELSE <<>>
            /\ IF TypeOf(fm, K_date) = "string"
               THEN post.date = fm[K_date].str
               ELSE Len(post.date) = 10 /\ getTime(post.date) = Num(now)
            /\ post.readingTime = IF TypeOf(fm, K_readingTime) = "number"
                                  THEN fm[K_readingTime].num ELSE 5
            /\ post.category = IF TypeOf(fm, K_category) = "string"
                               THEN fm[K_category].str
                               ELSE <<"G", "e", "n", "e", "r", "a", "l">>
            /\ post.featured = (TypeOf(fm, K_featured) = "boolean" /\ fm[K_featured].bool)

\* A numeric title and a reading time that is a word: both fall back, and so
\* do the four fields the header does not have.
C8_Witness ==
    /\ ppc = "done"
    /\ now = Day0
    /\ content = HeaderDoc(<<KV(K_title, <<"2", "0", "2", "4">>),
                             KV(K_readingTime, <<"t", "e", "n">>)>>)
    /\ parsed.frontmatter[K_title] = NumV(2024)
    /\ parsed.frontmatter[K_readingTime] = StrV(<<"t", "e", "n">>)
    /\ post = [slug |-> "post", title |-> Untitled, description |-> <<>>,
               date |-> D20240110, readingTime |-> 5, category |-> General,
               featured |-> FALSE]

\* The key and the value text of a key: value line, and the value without its
\* surrounding quotes (first and last character the same quote character).
FirstColon(line) == SetMin({i \in 1..Len(line) : line[i] = ":"})
RawKey(line) == Trim(SubSeq(line, 1, FirstColon(line) - 1))
RawValue(line) == Trim(SubSeq(line, FirstColon(line) + 1, Len(line)))
Unquote(v) ==
    IF Len(v) >= 1 /\ v[1] = v[Len(v)] /\ v[1] \in {"'", "\""}
    THEN SubSeq(v, 2, Len(v) - 1) ELSE v

\* A run of decimal digits, with or without a sign.
FullyNumeric(v) ==
    \/ IsDigits(v)
    \/ Len(v) >= 2 /\ v[1] \in {"-", "+"} /\ IsDigits(Tail(v))

\* C9: the value of a header line, after quote stripping, is stored as a number
\* exactly when it is fully numeric, and as the string it is otherwise.
C9_NumberIffFullyNumeric ==
    Parsed =>
        \A line \in HeaderLines :
            (Includes(line, ":") /\ content = HeaderDoc(<<line>>)) =>
                LET v == Unquote(RawValue(line))
                    stored == parsed.frontmatter[RawKey(line)]
                IN  IF FullyNumeric(v)
                    THEN stored.type = "number"
                    ELSE stored = StrV(v)

\* A header line the loop reads: not blank, and with a colon.
KeyLine(l) == Trim(l) # <<>> /\ Includes(l, ":")

\* The delimiter lines after the first line.
LaterDelims(ls) == {j \in 2..Len(ls) : IsDelimLine(ls[j])}

\* Malformed front matter, by the lines of the file: the delimiters are
\* missing, or the header (the lines between the first delimiter line and the
\* next one) has lines and none of them can be parsed (none has a colon).
MalformedLines(ls) ==
    \/ ~IsDelimLine(ls[1])
    \/ LaterDelims(ls) = {}
    \/ LET block == SubSeq(ls, 2, SetMin(LaterDelims(ls)) - 1)
       IN  /\ \E i \in DOMAIN block : Trim(block[i]) # <<>>
           /\ \A i \in DOMAIN block : ~KeyLine(block[i])

Malformed == LET ls == DocLines IN MalformedLines(ls)

\* C12: a file whose front matter is malformed (no delimiter pair, or only
\* header lines that cannot be parsed) gives empty metadata and still a record,
\* with its slug set and every other field at its default.
C12_MalformedGivesDefaults ==
    (Parsed /\ Malformed) =>
        /\ DOMAIN parsed.frontmatter = {}
        /\ ppc = "done" =>
              /\ post.slug = "post"
              /\ post.title = <<"U", "n", "t", "i", "t", "l", "e", "d">>
              /\ post.description = <<>>
              /\ Len(post.date) = 10 /\ getTime(post.date) = Num(now)
              /\ post.readingTime = 5
              /\ post.category = <<"G", "e", "n", "e", "r", "a", "l">>
              /\ post.featured = FALSE

\* A closed header whose only line has no colon: the record is all defaults.
C12_Witness ==
    /\ ppc = "done"
    /\ content = Join(<<Delim, <<"x">>, Delim, KV(K_title, Hello)>>, NL)
    /\ Malformed
    /\ post.slug = "post"
    /\ post.title = Untitled

\* C17: the key of a header line is the trimmed text before its first colon
\* and the value is all the text after that colon, trimmed, further colons
\* kept: title: 'a: b' gives the title a: b.
C17_SplitAtFirstColon ==
    Parsed =>
        /\ LET ls == DocLines
           IN  (/\ Len(ls) = 4
                /\ ls[1] = Delim /\ ls[3] = Delim /\ ls[4] = Body
                /\ KeyLine(ls[2])) =>
                   /\ DOMAIN parsed.frontmatter = {RawKey(ls[2])}
                   /\ parsed.frontmatter[RawKey(ls[2])].type = "string" =>
                         parsed.frontmatter[RawKey(ls[2])].str = Unquote(RawValue(ls[2]))
        /\ content = HeaderDoc(<<KV(K_title, Q(<<"a", ":", " ", "b">>))>>) =>
              parsed.frontmatter[K_title] = StrV(<<"a", ":", " ", "b">>)

\* The value with a colon inside was parsed and is the record's title.
C17_Witness ==
    /\ ppc = "done"
    /\ content = HeaderDoc(<<KV(K_title, Q(<<"a", ":", " ", "b">>))>>)
    /\ post.title = <<"a", ":", " ", "b">>

\* A value between a pair of the same quote character.
PairQuoted(v) == Len(v) >= 2 /\ v[1] = v[Len(v)] /\ v[1] \in {"'", "\""}

\* C18: quote stripping removes one leading and one trailing character, and
\* only from a value whose first and last character are the same quote
\* character; a quote at one end only and mismatched quotes are kept, and so
\* are quotes inside the value.
C18_QuoteStripping ==
    Parsed =>
        \A line \in HeaderLines :
            (KeyLine(line) /\ content = HeaderDoc(<<line>>)) =>
                LET v == RawValue(line)
                    stored == parsed.frontmatter[RawKey(line)]
                IN  stored.type = "string" =>
                        stored.str = IF PairQuoted(v) THEN SubSeq(v, 2, Len(v) - 1)
                                     ELSE v

\* C19: a blank header line and a header line without a colon add no entry
\* and raise no error, and the entries of the other lines are what they are
\* without it.
C19_BadLinesSkipped ==
    LET ls == DocLines
        header == SubSeq(ls, 2, Len(ls) - 2)
    IN  (/\ Parsed
         /\ Len(ls) >= 3
         /\ ls[1] = Delim
         /\ ls[Len(ls) - 1] = Delim
         /\ ls[Len(ls)] = Body
         /\ \A i \in DOMAIN header : ~IsDelimLine(header[i])) =>
            /\ parsed.frontmatter = ParseLines(SelectSeq(header, KeyLine), EmptyMap)
            /\ DOMAIN parsed.frontmatter =
                  {RawKey(header[i]) : i \in {k \in DOMAIN header : KeyLine(header[k])}}
            /\ parsed.body = Body

\* A line without a colon before a key line, and a blank line before one: the
\* key line's entry is there, alone.
C19_Witness ==
    /\ Parsed
    /\ \/ content = HeaderDoc(<<<<"x">>, KV(K_title, Q(Hello))>>)
       \/ content = HeaderDoc(<<Blank, KV(K_title, Q(Hello))>>)
    /\ DOMAIN parsed.frontmatter = {K_title}
    /\ parsed.frontmatter[K_title] = StrV(Hello)

\* The one header line of a document made of a delimiter line, one key line,
\* a delimiter line and the body; no line when the document is not of that kind.
OneLineHeader(ls) ==
    IF /\ Len(ls) = 4
       /\ ls[1] = Delim /\ ls[3] = Delim /\ ls[4] = Body
       /\ KeyLine(ls[2])
    THEN {ls[2]} ELSE {}

\* C21: a date made only of digits is stored as a number and the record's
\* date is the current day, not the header's value; a date with hyphens,
\* quoted or not, is the string written in the header.
C21_DigitDateIsNumber ==
    Parsed =>
        LET ls == DocLines
        IN  \A line \in OneLineHeader(ls) :
                RawKey(line) = K_date =>
                    LET v == Unquote(RawValue(line))
                        stored == parsed.frontmatter[K_date]
                    IN  /\ IsDigits(v) =>
                              /\ stored.type = "number"
                              /\ ppc = "done" =>
                                    /\ post.date # v
                                    /\ Len(post.date) = 10
                                    /\ getTime(post.date) = Num(now)
                        /\ Includes(v, "-") =>
                              /\ stored = StrV(v)
                              /\ ppc = "done" => post.date = v

\* date: 20240115 read on 2024-01-10 gives the record the date 2024-01-10.
C21_Witness ==
    /\ ppc = "done"
    /\ now = Day0
    /\ content = HeaderDoc(<<KV(K_date, <<"2", "0", "2", "4", "0", "1", "1", "5">>)>>)
    /\ parsed.frontmatter[K_date].type = "number"
    /\ post.date = D20240110

\* C23: parseFrontmatter stores no boolean: every value of the FieldMap is a
\* string or a number, the words true and false stay strings, and the
\* featured flag of the record is false whatever the header says.
C23_NeverBoolean ==
    Parsed =>
        /\ \A k \in DOMAIN parsed.frontmatter :
              parsed.frontmatter[k].type \in {"string", "number"}
        /\ ppc = "done" => post.featured = FALSE

\* featured: true was parsed and built: the string true, the flag false.
C23_Witness ==
    /\ ppc = "done"
    /\ content = HeaderDoc(<<KV(K_featured, <<"t", "r", "u", "e">>)>>)
    /\ parsed.frontmatter[K_featured] = StrV(<<"t", "r", "u", "e">>)
    /\ post.featured = FALSE

\* The FieldMap of one header line alone.
Entry(line) == ParseLine(line, EmptyMap)

\* C24: when a key occurs on several header lines, the FieldMap has one
\* entry for it, with the value of the last of those lines.
C24_LastOccurrenceWins ==
    LET ls == DocLines
        header == SubSeq(ls, 2, Len(ls) - 2)
    IN  (/\ Parsed
         /\ Len(ls) >= 3
         /\ ls[1] = Delim
         /\ ls[Len(ls) - 1] = Delim
         /\ ls[Len(ls)] = Body
         /\ \A i \in DOMAIN header : ~IsDelimLine(header[i])) =>
            \A i \in DOMAIN header :
                KeyLine(header[i]) =>
                    LET key == RawKey(header[i])
                        last == SetMax({j \in DOMAIN header :
                                          KeyLine(header[j]) /\ RawKey(header[j]) = key})
                    IN  parsed.frontmatter[key] = Entry(header[last])[key]

\* title: 'hello' and then title: 2024: the one entry is the number 2024.
C24_Witness ==
    /\ Parsed
    /\ content = HeaderDoc(<<KV(K_title, Q(Hello)), KV(K_title, <<"2", "0", "2", "4">>)>>)
    /\ DOMAIN parsed.frontmatter = {K_title}
    /\ parsed.frontmatter[K_title] = NumV(2024)

\* C25: a value that is empty after trimming and quote stripping is stored as
\* the empty string, not as the number 0, and the record's title is then the
\* empty string; the default title is only for an absent key and for a key
\* whose value became a number.
C25_EmptyValueIsEmptyString ==
    Parsed =>
        /\ LET ls == DocLines
           IN  \A line \in OneLineHeader(ls) :
                   Unquote(RawValue(line)) = <<>> =>
                       /\ parsed.frontmatter[RawKey(line)] = StrV(<<>>)
                       /\ (ppc = "done" /\ RawKey(line) = K_title) => post.title = <<>>
        /\ (ppc = "done" /\ post.title = <<"U", "n", "t", "i", "t", "l", "e", "d">>) =>
              \/ K_title \notin DOMAIN parsed.frontmatter
              \/ parsed.frontmatter[K_title].type = "number"

\* title: '' was parsed and built: the title is the empty string.
C25_Witness ==
    /\ ppc = "done"
    /\ content = HeaderDoc(<<KV(K_title, Q(<<>>))>>)
    /\ parsed.frontmatter[K_title] = StrV(<<>>)
    /\ post.title = <<>>

----------------------------------------------------------------------------
(* Claims about the theme, checked under SpecTheme *)

\* C27: on a mounted page, once the theme effect has run, localStorage.theme
\* is dark and the document root has the class dark exactly when
\* theme.isDarkMode is true; each toggleDarkMode call flips isDarkMode (so it
\* is the initial value after an even number of calls, the other after an
\* odd number) and leaves isInitialized alone.
C27_ThemeAgreesWithState ==
    tpc = "mounted" =>
        /\ isInitialized
        /\ isDarkMode = (IF toggles % 2 = 0 THEN visitStart ELSE ~visitStart)
        /\ ~dirty =>
              /\ (storage = "dark") = isDarkMode
              /\ rootDark = isDarkMode

\* Two toggles on a page that started light: dark was persisted in between
\* and the page is light again, persisted and rendered.
C27_Witness ==
    /\ tpc = "mounted"
    /\ toggles = 2
    /\ ~dirty
    /\ ~visitStart
    /\ ~isDarkMode
    /\ storage = ""
    /\ ~rootDark

\* C28: the system preference decides the initial theme only while
\* localStorage has no key theme; the first mount writes the key and it stays
\* written, so every later page load starts with the theme the previous
\* visit ended with, whatever the system preference is then.
C28_StoredThemeWins ==
    /\ (storage = "absent") = (lastTheme = "none" /\ tpc # "mounted")
    /\ tpc = "loaded" =>
          isDarkMode = (IF lastTheme = "none" THEN prefersDark ELSE lastTheme = "dark")

\* A later page load with a light system preference starts dark, as the
\* previous visit ended; and one with a dark preference starts light.
C28_Witness ==
    /\ tpc = "loaded"
    /\ visits >= 2
    /\ \/ lastTheme = "dark" /\ ~prefersDark /\ isDarkMode
       \/ lastTheme = "light" /\ prefersDark /\ ~isDarkMode

----------------------------------------------------------------------------
(* Claims about the contact form, checked under SpecContact *)

\* The texts a successful response leaves in status.
SuccessTexts == {IF m = "" THEN "Success" ELSE m : m \in Messages}

\* C29, as claimed: status is submitting... once the request is sent, a
\* response that reports success sets it to the message (or Success), and
\* after a response that reports failure or a request that threw status is
\* still submitting...
C29_FailureKeepsSubmitting ==
    /\ lastEvent = "submit" => status = Submitting
    /\ lastEvent = "success" => status \in SuccessTexts
    /\ lastEvent \in {"failure", "throw"} => status = Submitting

\* C29, amended: a submission sets status to submitting..., a response that
\* reports success sets it to the message (or Success), and a response that
\* reports failure or a request that throws leaves status as it is, which is
\* submitting... or the text of another submission's success.
C29_FailureLeavesStatus ==
    [][/\ inflight' = inflight + 1 => status' = Submitting
       /\ (inflight' = inflight - 1 /\ lastEvent' = "success") =>
             status' \in SuccessTexts
       /\ (inflight' = inflight - 1 /\ lastEvent' \in {"failure", "throw"}) =>
             status' = status]_vars

\* Two submissions waited together; one succeeded, then the other failed or
\* threw, and status is the text of the success.
C29_Witness ==
    /\ lastEvent \in {"failure", "throw"}
    /\ status \in SuccessTexts
    /\ submits = 2
    /\ inflight = 0

====
